---- MODULE Spec2Model ----
(***************************************************************************)
(* Model of package encache (src/cacheimpl.go): the in-process map cache   *)
(* MapCacheImpl, the redis adapter RedisCacheImpl with its JSON codec, and *)
(* the key deriver CacheKeyImpl.                                           *)
(*                                                                         *)
(* Time is an integer clock `now` (one unit = one second); a time.Duration *)
(* is an integer number of units, possibly zero or negative.               *)
(*                                                                         *)
(* Spec      one caller issuing whole calls on one backend instance        *)
(*           (chosen at construction), the clock, one sweep pass per tick. *)
(* SpecConc  the map backend shared by goroutines: two callers and the     *)
(*           sweep goroutine, each call split at its map accesses.         *)
(* SpecLive  SpecConc with the scheduler's fairness.                       *)
(* SpecCodec the codec of RedisCacheImpl: Serialize and Deserialize calls. *)
(* SpecKey   CacheKeyImpl.Key called on names and argument lists.          *)
(* SpecRemote RedisCacheImpl over a store other clients write to.          *)
(* SpecBoth  a MapCacheImpl and a RedisCacheImpl given the same calls.     *)
(***************************************************************************)
EXTENDS Integers, Sequences, FiniteSets, TLC

VARIABLES
    backend,    \* "map" (NewMapCacheImpl) or "redis" (NewRedisCacheImpl)
    now,        \* time.Now()
    cache,      \* MapCacheImpl.cache : map[string]cacheEntry
    store,      \* the key space of the redis server behind RedisCacheImpl.client
    crashed,    \* the process died (panic or runtime fatal error)
    last,       \* the most recent step of the sequential caller, with its results
    written,    \* history: keys some Set was ever called on
    delNow,     \* history: keys whose latest Set / Expire(ttl <= 0) had ttl <= 0
    expired0,   \* history: keys with Expire(ttl <= 0) on a present entry, no Set since
    pc,         \* SpecConc: where each goroutine is
    loc,        \* SpecConc: each goroutine's local variables
    hist        \* SpecConc: history of the calls issued so far

vars == <<backend, now, cache, store, crashed, last, written, delNow, expired0,
          pc, loc, hist>>

seqVars == <<backend, store, last, written, delNow, expired0>>

concVars == <<pc, loc, hist>>

-----------------------------------------------------------------------------
(* Bounds                                                                  *)

\* the clock stops at MaxTime
MaxTime == 2

\* the durations callers pass are MinTTL .. MaxTTL, with MinTTL = -1
MaxTTL == 2

\* the SpecConc callers issue at most MaxCalls calls between them
MaxCalls == 2

Keys == {"k1", "k2"}

TTLs == (0 - 1) .. MaxTTL

\* reflect.Value: a Go value with its static type
I1 == [ty |-> "int", v |-> "1"]

I2 == [ty |-> "int", v |-> "2"]

\* the result lists ([]reflect.Value) callers cache
ValueLists == {<<>>, <<I1, I2>>, <<I2, I1>>}

\* reflect.Type of the cached function: the types of its results, in order
SigOf(v) == [i \in 1 .. Len(v) |-> v[i].ty]

Sigs == {SigOf(v) : v \in ValueLists}

Nil == "nil"

\* an error of the redis server or connection other than redis.Nil
StoreErr == "store error"

\* redis.Nil : the key does not exist
RedisNil == "redis: nil"

-----------------------------------------------------------------------------
(* time.Time                                                               *)

\* t.After(u)
After(t, u) == t > u

\* t.Before(u)
Before(t, u) == t < u

\* t.Add(d)
Add(t, d) == t + d

-----------------------------------------------------------------------------
(* Go map operations on MapCacheImpl.cache                                 *)

\* v, ok := m[key]
MapHas(m, key) == key \in DOMAIN m

\* m[key] = e
MapAssign(m, key, e) ==
    [x \in DOMAIN m \cup {key} |-> IF x = key THEN e ELSE m[x]]

\* delete(m, key)
MapDelete(m, key) == [x \in DOMAIN m \ {key} |-> m[x]]

\* make(map[string]cacheEntry)
EmptyMap == [x \in {} |-> Nil]

-----------------------------------------------------------------------------
(* MapCacheImpl.  Each handler is an operator from the table, the          *)
(* arguments and the clock to the table afterwards and the values returned.*)

\* the composite literal cacheEntry{value, time.Now().Add(expiry)} of Set
NewEntry(value, expiry, t) == [value |-> value, expiryTime |-> Add(t, expiry)]

\* Get with !Before in place of After: an entry is served at its expiry instant
MapCacheImpl_Get_NotBefore(c, key, t) ==
    IF MapHas(c, key) /\ ~Before(c[key].expiryTime, t)
    THEN [cache |-> c, value |-> c[key].value, found |-> TRUE, err |-> Nil]
    ELSE [cache |-> c, value |-> <<>>, found |-> FALSE, err |-> Nil]

\* Get that deletes the stale entry it comes across
MapCacheImpl_Get_Prunes(c, key, t) ==
    IF MapHas(c, key) /\ After(c[key].expiryTime, t)
    THEN [cache |-> c, value |-> c[key].value, found |-> TRUE, err |-> Nil]
    ELSE [cache |-> MapDelete(c, key), value |-> <<>>, found |-> FALSE,
          err |-> Nil]

\* func (cacheImpl *MapCacheImpl) Get(key, _) ([]reflect.Value, bool, error)
MapCacheImpl_Get(c, key, t) ==
    IF MapHas(c, key) /\ After(c[key].expiryTime, t)
    THEN [cache |-> c, value |-> c[key].value, found |-> TRUE, err |-> Nil]
    ELSE [cache |-> c, value |-> <<>>, found |-> FALSE, err |-> Nil]

\* func (cacheImpl *MapCacheImpl) Set(key, value, expiry) error
MapCacheImpl_Set(c, key, value, expiry, t) ==
    [cache |-> MapAssign(c, key, NewEntry(value, expiry, t)), err |-> Nil]

\* cacheEntry, ok := cacheImpl.cache[key]      (Expire's existence check)
ExpireLookup(c, key) ==
    [ok |-> MapHas(c, key),
     value |-> IF MapHas(c, key) THEN c[key].value ELSE <<>>]

\* the branch with expiry < 0 in place of expiry <= 0
ExpireBranch_StrictlyNegative(ok, expiry) ==
    IF ok
    THEN IF expiry < 0 THEN "delete" ELSE "set"
    ELSE "return"

\* the branch without the test of ok
ExpireBranch_IgnoresOk(ok, expiry) ==
    IF expiry <= 0 THEN "delete" ELSE "set"

\* the branch Expire takes after its existence check
ExpireBranch(ok, expiry) ==
    IF ok
    THEN IF expiry <= 0 THEN "delete" ELSE "set"
    ELSE "return"

\* Expire that only ever extends: it keeps an expiry later than now + expiry
MapCacheImpl_Expire_OnlyExtends(c, key, expiry, t) ==
    LET rd == ExpireLookup(c, key)
        br == ExpireBranch(rd.ok, expiry)
    IN  CASE br = "delete" -> [cache |-> MapDelete(c, key), err |-> Nil]
          [] br = "set"    ->
               IF After(c[key].expiryTime, Add(t, expiry))
               THEN [cache |-> c, err |-> Nil]
               ELSE MapCacheImpl_Set(c, key, rd.value, expiry, t)
          [] OTHER         -> [cache |-> c, err |-> Nil]

\* func (cacheImpl *MapCacheImpl) Expire(key, expiry) error, run without
\* interruption.  The mutex it locks is allocated by the call itself, so
\* lock() and unlock() always succeed and never wait.
MapCacheImpl_Expire(c, key, expiry, t) ==
    LET rd == ExpireLookup(c, key)
        br == ExpireBranch(rd.ok, expiry)
    IN  CASE br = "delete" -> [cache |-> MapDelete(c, key), err |-> Nil]
          [] br = "set"    -> MapCacheImpl_Set(c, key, rd.value, expiry, t)
          [] OTHER         -> [cache |-> c, err |-> Nil]

\* if entry.expiryTime.Before(time.Now())     (the sweep's test of one entry)
SweepTest(entry, t) == Before(entry.expiryTime, t)

\* one iteration of the sweep's range loop, run without interruption
SweepEntry(c, key, t) ==
    IF MapHas(c, key) /\ SweepTest(c[key], t)
    THEN MapCacheImpl_Expire(c, key, 0, t).cache
    ELSE c

RECURSIVE SweepPass(_, _, _)
\* the range loop of PeriodicExpire over the keys still to visit
SweepPass(c, keys, t) ==
    IF keys = {}
    THEN c
    ELSE LET k == CHOOSE x \in keys : TRUE
         IN  SweepPass(SweepEntry(c, k, t), keys \ {k}, t)

-----------------------------------------------------------------------------
(* The redis server reached through redis.UniversalClient (go-redis v9).   *)
(* A stored key holds a text and either no time to live (persist) or the   *)
(* instant it expires at; an expired key does not exist.                   *)

StoreLive(s, key, t) ==
    key \in DOMAIN s /\ (s[key].persist \/ s[key].expireAt > t)

\* the server dropping the keys whose time to live has run out
StorePurge(s, t) ==
    [x \in {k \in DOMAIN s : StoreLive(s, k, t)} |-> s[x]]

\* a text that is no JSON document (what Get hands back beside an error)
NoText == [kind |-> "malformed", elems |-> <<>>]

\* client.Get(ctx, key).Result()
ClientGet(s, key, t, fail) ==
    IF fail THEN [val |-> NoText, err |-> StoreErr]
    ELSE IF StoreLive(s, key, t) THEN [val |-> s[key].text, err |-> Nil]
    ELSE [val |-> NoText, err |-> RedisNil]

\* client.Set(ctx, key, text, expiry).Err(): SET key text EX expiry when
\* expiry > 0, and plain SET key text (no time to live) otherwise
ClientSet(s, key, text, expiry, t, fail) ==
    IF fail THEN [store |-> s, err |-> StoreErr]
    ELSE IF expiry > 0
    THEN [store |-> MapAssign(s, key, [text |-> text, persist |-> FALSE,
                                       expireAt |-> Add(t, expiry)]),
          err |-> Nil]
    ELSE [store |-> MapAssign(s, key, [text |-> text, persist |-> TRUE,
                                       expireAt |-> 0]),
          err |-> Nil]

\* client.Expire(ctx, key, expiry).Err(): EXPIRE key expiry; the server
\* deletes the key when expiry <= 0 and ignores a key that does not exist
ClientExpire(s, key, expiry, t, fail) ==
    IF fail THEN [store |-> s, err |-> StoreErr]
    ELSE IF ~StoreLive(s, key, t) THEN [store |-> s, err |-> Nil]
    ELSE IF expiry <= 0 THEN [store |-> MapDelete(s, key), err |-> Nil]
    ELSE [store |-> MapAssign(s, key, [text |-> s[key].text, persist |-> FALSE,
                                       expireAt |-> Add(t, expiry)]),
          err |-> Nil]

-----------------------------------------------------------------------------
(* RedisCacheImpl and its codec.  A JSON text is [kind, elems]: kind is    *)
(* "array", "null" or "malformed", elems the array's elements as text.     *)

\* json.Marshal of one reflect.Value: a struct without exported fields
MarshalValue(x) == "{}"

\* func (cacheImpl *RedisCacheImpl) Serialize(res) (string, error)
RedisCacheImpl_Serialize(res) ==
    [text |-> [kind |-> "array",
               elems |-> [i \in 1 .. Len(res) |-> MarshalValue(res[i])]],
     err |-> Nil]

\* the Go type json.Unmarshal gives an element decoded into interface{}:
\* an object becomes a map, a string a string, a number a float64
DecodedType(tok) ==
    IF tok = "{}" THEN "map"
    ELSE IF tok = "\"a\"" THEN "string"
    ELSE "float64"

\* the Go value json.Unmarshal gives an element decoded into interface{}
DecodedValue(tok) ==
    IF tok = "{}" THEN "map[]"
    ELSE IF tok = "\"a\"" THEN "a"
    ELSE tok

\* whether reflect.Value.Set accepts a value of type from in a slot of type to
AssignableTo(from, to) == to = "iface" \/ from = to

\* func (cacheImpl *RedisCacheImpl) Deserialize(serializedResult, fType)
\* panic: fType.Out(i) out of range, or Set of a value that is not assignable
RedisCacheImpl_Deserialize(text, fType) ==
    IF text.kind = "malformed"
    THEN [value |-> <<>>, err |-> "json error", panic |-> FALSE]
    ELSE IF text.kind = "null"
    THEN [value |-> <<>>, err |-> Nil, panic |-> FALSE]
    ELSE LET n == Len(text.elems)
             bad == {i \in 1 .. n :
                        \/ i > Len(fType)
                        \/ ~AssignableTo(DecodedType(text.elems[i]), fType[i])}
         IN  IF bad # {}
             THEN [value |-> <<>>, err |-> Nil, panic |-> TRUE]
             ELSE [value |-> [i \in 1 .. n |->
                                [ty |-> fType[i],
                                 v |-> DecodedValue(text.elems[i])]],
                   err |-> Nil, panic |-> FALSE]

\* Get without the test err != redis.Nil: a missing key is reported as an error
RedisCacheImpl_Get_NilIsError(s, key, fType, t, fail) ==
    LET r == ClientGet(s, key, t, fail)
        d == RedisCacheImpl_Deserialize(r.val, fType)
    IN  IF r.err # Nil
        THEN [value |-> <<>>, found |-> FALSE, err |-> r.err, panic |-> FALSE]
        ELSE IF d.panic
        THEN [value |-> <<>>, found |-> FALSE, err |-> Nil, panic |-> TRUE]
        ELSE IF d.err # Nil
        THEN [value |-> <<>>, found |-> FALSE, err |-> d.err, panic |-> FALSE]
        ELSE [value |-> d.value, found |-> TRUE, err |-> Nil, panic |-> FALSE]

\* Get that answers a text it cannot decode like a missing key
RedisCacheImpl_Get_SwallowsDecodeError(s, key, fType, t, fail) ==
    LET r == ClientGet(s, key, t, fail)
        d == RedisCacheImpl_Deserialize(r.val, fType)
    IN  IF r.err # Nil /\ r.err # RedisNil
        THEN [value |-> <<>>, found |-> FALSE, err |-> r.err, panic |-> FALSE]
        ELSE IF r.err = RedisNil
        THEN [value |-> <<>>, found |-> FALSE, err |-> Nil, panic |-> FALSE]
        ELSE IF d.panic
        THEN [value |-> <<>>, found |-> FALSE, err |-> Nil, panic |-> TRUE]
        ELSE IF d.err # Nil
        THEN [value |-> <<>>, found |-> FALSE, err |-> Nil, panic |-> FALSE]
        ELSE [value |-> d.value, found |-> TRUE, err |-> Nil, panic |-> FALSE]

\* func (cacheImpl *RedisCacheImpl) Get(key, fType)
RedisCacheImpl_Get(s, key, fType, t, fail) ==
    LET r == ClientGet(s, key, t, fail)
        d == RedisCacheImpl_Deserialize(r.val, fType)
    IN  IF r.err # Nil /\ r.err # RedisNil
        THEN [value |-> <<>>, found |-> FALSE, err |-> r.err, panic |-> FALSE]
        ELSE IF r.err = RedisNil
        THEN [value |-> <<>>, found |-> FALSE, err |-> Nil, panic |-> FALSE]
        ELSE IF d.panic
        THEN [value |-> <<>>, found |-> FALSE, err |-> Nil, panic |-> TRUE]
        ELSE IF d.err # Nil
        THEN [value |-> <<>>, found |-> FALSE, err |-> d.err, panic |-> FALSE]
        ELSE [value |-> d.value, found |-> TRUE, err |-> Nil, panic |-> FALSE]

\* func (cacheImpl *RedisCacheImpl) Set(key, value, expiry) error
RedisCacheImpl_Set(s, key, value, expiry, t, fail) ==
    LET ser == RedisCacheImpl_Serialize(value)
    IN  IF ser.err # Nil
        THEN [store |-> s, err |-> ser.err]
        ELSE ClientSet(s, key, ser.text, expiry, t, fail)

\* func (cacheImpl *RedisCacheImpl) Expire(key, expiry) error
RedisCacheImpl_Expire(s, key, expiry, t, fail) ==
    ClientExpire(s, key, expiry, t, fail)

-----------------------------------------------------------------------------
(* Spec: one caller, whole calls.  `last` records the step just taken.     *)

Procs == {"c1", "c2"}

Sweeper == "sweep"

NoResult ==
    [value |-> <<>>, found |-> FALSE, err |-> Nil, ok |-> FALSE]

Step(op, key, ttl, sig, fail, res) ==
    [op |-> op, key |-> key, ttl |-> ttl, sig |-> sig, fail |-> fail,
     value |-> res.value, found |-> res.found, err |-> res.err, ok |-> res.ok,
     t |-> now]

NoStep(op) == Step(op, "", 0, <<>>, FALSE, NoResult)

NoEntry == [value |-> <<>>, expiryTime |-> 0]

\* the locals of a goroutine that is in no call
LocIdle ==
    [op |-> "", key |-> "", ttl |-> 0, entry |-> NoEntry, locked |-> FALSE,
     visited |-> {}, start |-> {}]

Init ==
    /\ backend \in {"map", "redis"}
    /\ now = 0
    /\ cache = EmptyMap
    /\ store = EmptyMap
    /\ crashed = FALSE
    /\ last = NoStep("New")
    /\ written = {}
    /\ delNow = {}
    /\ expired0 = {}
    /\ pc = [p \in Procs \cup {Sweeper} |-> IF p = Sweeper THEN "off" ELSE "idle"]
    /\ loc = [p \in Procs \cup {Sweeper} |-> LocIdle]
    /\ hist = [calls |-> 0, lastSet |-> EmptyMap, used |-> {}, setsOnly |-> TRUE]

\* time passes; the redis server drops the keys that expire
Tick ==
    /\ ~crashed
    /\ now < MaxTime
    /\ now' = now + 1
    /\ store' = StorePurge(store, now + 1)
    /\ last' = [NoStep("Tick") EXCEPT !.t = now + 1]
    /\ UNCHANGED <<backend, cache, crashed, written, delNow, expired0, concVars>>

MapGet(key) ==
    /\ backend = "map" /\ ~crashed
    /\ LET r == MapCacheImpl_Get(cache, key, now)
       IN  /\ cache' = r.cache
           /\ last' = Step("Get", key, 0, <<>>, FALSE,
                            [value |-> r.value, found |-> r.found,
                             err |-> r.err, ok |-> FALSE])
    /\ UNCHANGED <<backend, now, store, crashed, written, delNow, expired0, concVars>>

MapSet(key, value, ttl) ==
    /\ backend = "map" /\ ~crashed
    /\ LET r == MapCacheImpl_Set(cache, key, value, ttl, now)
       IN  /\ cache' = r.cache
           /\ last' = Step("Set", key, ttl, <<>>, FALSE,
                            [value |-> value, found |-> FALSE,
                             err |-> r.err, ok |-> FALSE])
    /\ written' = written \cup {key}
    /\ delNow' = IF ttl <= 0 THEN delNow \cup {key} ELSE delNow \ {key}
    /\ expired0' = expired0 \ {key}
    /\ UNCHANGED <<backend, now, store, crashed, concVars>>

MapExpire(key, ttl) ==
    /\ backend = "map" /\ ~crashed
    /\ LET r == MapCacheImpl_Expire(cache, key, ttl, now)
       IN  /\ cache' = r.cache
           /\ last' = Step("Expire", key, ttl, <<>>, FALSE,
                            [value |-> <<>>, found |-> FALSE, err |-> r.err,
                             ok |-> ExpireLookup(cache, key).ok])
    /\ delNow' = IF ttl <= 0 THEN delNow \cup {key} ELSE delNow
    /\ expired0' = IF ttl <= 0 /\ MapHas(cache, key)
                   THEN expired0 \cup {key} ELSE expired0
    /\ UNCHANGED <<backend, now, store, crashed, written, concVars>>

\* one pass of the loop PeriodicExpire started, between two sleeps
MapSweep ==
    /\ backend = "map" /\ ~crashed
    /\ cache' = SweepPass(cache, DOMAIN cache, now)
    /\ last' = NoStep("Sweep")
    /\ UNCHANGED <<backend, now, store, crashed, written, delNow, expired0, concVars>>

RedisGet(key, fType, fail) ==
    /\ backend = "redis" /\ ~crashed
    /\ LET r == RedisCacheImpl_Get(store, key, fType, now, fail)
       IN  /\ crashed' = r.panic
           /\ last' = Step("Get", key, 0, fType, fail,
                            [value |-> r.value, found |-> r.found,
                             err |-> r.err, ok |-> FALSE])
    /\ UNCHANGED <<backend, now, cache, store, written, delNow, expired0, concVars>>

RedisSet(key, value, ttl, fail) ==
    /\ backend = "redis" /\ ~crashed
    /\ LET r == RedisCacheImpl_Set(store, key, value, ttl, now, fail)
       IN  /\ store' = r.store
           /\ last' = Step("Set", key, ttl, <<>>, fail,
                            [value |-> value, found |-> FALSE,
                             err |-> r.err, ok |-> FALSE])
           /\ delNow' = IF ttl > 0 THEN delNow \ {key}
                        ELSE IF r.err = Nil THEN delNow \cup {key} ELSE delNow
    /\ written' = written \cup {key}
    /\ UNCHANGED <<backend, now, cache, crashed, expired0, concVars>>

RedisExpire(key, ttl, fail) ==
    /\ backend = "redis" /\ ~crashed
    /\ LET r == RedisCacheImpl_Expire(store, key, ttl, now, fail)
       IN  /\ store' = r.store
           /\ last' = Step("Expire", key, ttl, <<>>, fail,
                            [value |-> <<>>, found |-> FALSE, err |-> r.err,
                             ok |-> StoreLive(store, key, now)])
           /\ delNow' = IF ttl <= 0 /\ r.err = Nil
                        THEN delNow \cup {key} ELSE delNow
    /\ UNCHANGED <<backend, now, cache, crashed, written, expired0, concVars>>

Next ==
    \/ Tick
    \/ \E k \in Keys : MapGet(k)
    \/ \E k \in Keys, v \in ValueLists, d \in TTLs : MapSet(k, v, d)
    \/ \E k \in Keys, d \in TTLs : MapExpire(k, d)
    \/ MapSweep
    \/ \E k \in Keys, f \in Sigs, e \in BOOLEAN : RedisGet(k, f, e)
    \/ \E k \in Keys, v \in ValueLists, d \in TTLs, e \in BOOLEAN :
          RedisSet(k, v, d, e)
    \/ \E k \in Keys, d \in TTLs, e \in BOOLEAN : RedisExpire(k, d, e)

Spec == Init /\ [][Next]_vars

-----------------------------------------------------------------------------
(* SpecConc: the map backend shared by goroutines.  MapCacheImpl holds a   *)
(* bare Go map and no lock of its own, and Expire's mutex is its own, so   *)
(* nothing orders the map accesses of two goroutines: calls interleave at  *)
(* every map access.  A goroutine is poised at an access when that access  *)
(* is its next step.  An access made while another goroutine is poised at  *)
(* a conflicting access (one of the two being a write) is a data race: the *)
(* two may overlap, the runtime may then stop the process with a fatal     *)
(* error ("concurrent map writes", "concurrent map read and map write",    *)
(* "concurrent map iteration and map write"), and when it does not, a      *)
(* write that overlapped another write may be lost.  The clock stands      *)
(* still while the calls overlap: an entry is stale because it was stored  *)
(* with a negative duration or was stale in the table SpecConc starts from.*)

Goroutines == Procs \cup {Sweeper}

\* q's next step writes the map (map assignment or delete)
PoisedWrite(q) == pc[q] \in {"assign", "delete"}

\* q's next step reads the map (Expire's lookup, the range loop)
PoisedRead(q) == pc[q] \in {"lookup", "range"}

\* a read by p can overlap a write
RacyRead(p) == \E q \in Goroutines \ {p} : PoisedWrite(q)

\* a write by p can overlap a read or a write
RacyWrite(p) ==
    \E q \in Goroutines \ {p} : PoisedWrite(q) \/ PoisedRead(q)

\* the tables a write by p can leave: the one it asks for, or, when it
\* overlaps another write, the one before it
WriteOutcomes(p, before, after) ==
    {after} \cup (IF \E q \in Goroutines \ {p} : PoisedWrite(q)
                  THEN {before} ELSE {})

\* muLockImpl := NewMuLockImpl(); muLockImpl.lock(): the mutex is new, so
\* nobody else holds it and the lock is taken at once
MuLock(l) == [l EXCEPT !.locked = TRUE]

\* the deferred muLockImpl.unlock()
MuUnlock(l) == [l EXCEPT !.locked = FALSE]

\* a call is issued: what the history keeps of it
Issue(op, key) ==
    [hist EXCEPT !.calls = @ + 1,
                 !.used = @ \cup {key},
                 !.setsOnly = @ /\ op = "Set" /\ key \notin hist.used]

\* where a goroutine goes when its Expire returns
AfterExpire(p) == IF p = Sweeper THEN "range" ELSE "idle"

\* a return that leaves the lock as it is
Returned_KeepsLock(p) ==
    [LocIdle EXCEPT !.locked = loc[p].locked,
                    !.visited = loc[p].visited,
                    !.start = loc[p].start]

\* the locals of p once its call has returned
Returned(p) ==
    [MuUnlock(LocIdle) EXCEPT !.visited = loc[p].visited,
                              !.start = loc[p].start]

\* Get: one map read and one reading of the clock
CallGet(p, key) ==
    /\ ~crashed /\ pc[p] = "idle" /\ hist.calls < MaxCalls
    /\ IF RacyRead(p) THEN crashed' \in BOOLEAN ELSE crashed' = crashed
    /\ cache' = MapCacheImpl_Get(cache, key, now).cache
    /\ hist' = Issue("Get", key)
    /\ UNCHANGED <<now, pc, loc, seqVars>>

\* Set, up to the evaluation of the entry it is about to store
CallSet(p, key, value, expiry) ==
    /\ ~crashed /\ pc[p] = "idle" /\ hist.calls < MaxCalls
    /\ loc' = [loc EXCEPT ![p] =
                  [LocIdle EXCEPT !.op = "Set", !.key = key, !.ttl = expiry,
                                  !.entry = NewEntry(value, expiry, now)]]
    /\ pc' = [pc EXCEPT ![p] = "assign"]
    /\ hist' = Issue("Set", key)
    /\ UNCHANGED <<now, cache, crashed, seqVars>>

\* cacheImpl.cache[key] = entry, and the return of Set (and, inside
\* Expire, the deferred unlock and the return of Expire)
MapAssignStep(p) ==
    /\ ~crashed /\ pc[p] = "assign"
    /\ \/ /\ RacyWrite(p)
          /\ crashed' = TRUE
          /\ UNCHANGED <<cache, pc, loc, hist>>
       \/ /\ crashed' = crashed
          /\ cache' \in WriteOutcomes(p, cache,
                           MapAssign(cache, loc[p].key, loc[p].entry))
          /\ pc' = [pc EXCEPT ![p] =
                       IF loc[p].op = "Set" THEN "idle" ELSE AfterExpire(p)]
          /\ loc' = [loc EXCEPT ![p] = Returned(p)]
          /\ hist' = IF loc[p].op = "Set"
                     THEN [hist EXCEPT !.lastSet =
                             MapAssign(@, loc[p].key, loc[p].entry)]
                     ELSE hist
    /\ UNCHANGED <<now, seqVars>>

\* Expire, up to the taking of its own lock
CallExpire(p, key, expiry) ==
    /\ ~crashed /\ pc[p] = "idle" /\ hist.calls < MaxCalls
    /\ loc' = [loc EXCEPT ![p] =
                  MuLock([LocIdle EXCEPT !.op = "Expire", !.key = key,
                                         !.ttl = expiry])]
    /\ pc' = [pc EXCEPT ![p] = "lookup"]
    /\ hist' = Issue("Expire", key)
    /\ UNCHANGED <<now, cache, crashed, seqVars>>

\* Expire's existence check and the branch it takes: towards the delete,
\* into Set (which evaluates the new entry), or, the key being absent, to
\* the deferred unlock and the return
ExpireRead(p) ==
    /\ ~crashed /\ pc[p] = "lookup"
    /\ IF RacyRead(p) THEN crashed' \in BOOLEAN ELSE crashed' = crashed
    /\ LET rd == ExpireLookup(cache, loc[p].key)
           br == ExpireBranch(rd.ok, loc[p].ttl)
       IN  CASE br = "delete" ->
                  /\ pc' = [pc EXCEPT ![p] = "delete"]
                  /\ loc' = loc
             [] br = "set" ->
                  /\ pc' = [pc EXCEPT ![p] = "assign"]
                  /\ loc' = [loc EXCEPT ![p].entry =
                                NewEntry(rd.value, loc[p].ttl, now)]
             [] OTHER ->
                  /\ pc' = [pc EXCEPT ![p] = AfterExpire(p)]
                  /\ loc' = [loc EXCEPT ![p] = Returned(p)]
    /\ UNCHANGED <<now, cache, hist, seqVars>>

\* delete(cacheImpl.cache, key), the deferred unlock and the return
MapDeleteStep(p) ==
    /\ ~crashed /\ pc[p] = "delete"
    /\ \/ /\ RacyWrite(p)
          /\ crashed' = TRUE
          /\ UNCHANGED <<cache, pc, loc>>
       \/ /\ crashed' = crashed
          /\ cache' \in WriteOutcomes(p, cache, MapDelete(cache, loc[p].key))
          /\ pc' = [pc EXCEPT ![p] = AfterExpire(p)]
          /\ loc' = [loc EXCEPT ![p] = Returned(p)]
    /\ UNCHANGED <<now, hist, seqVars>>

\* PeriodicExpire(runOnDuration): the sweep goroutine is started
PeriodicExpire ==
    /\ ~crashed /\ pc[Sweeper] = "off"
    /\ pc' = [pc EXCEPT ![Sweeper] = "sleep"]
    /\ hist' = [hist EXCEPT !.setsOnly = FALSE]
    /\ UNCHANGED <<now, cache, crashed, loc, seqVars>>

\* time.Sleep(runOnDuration) returns and the range loop starts
SweepWake ==
    /\ ~crashed /\ pc[Sweeper] = "sleep"
    /\ pc' = [pc EXCEPT ![Sweeper] = "range"]
    /\ loc' = [loc EXCEPT ![Sweeper].visited = {},
                          ![Sweeper].start = DOMAIN cache]
    /\ UNCHANGED <<now, cache, crashed, hist, seqVars>>

\* the range loop yields (key, entry) and tests the entry; a stale entry
\* makes the sweep call Expire(key, 0), which takes its own lock
SweepNext(key) ==
    /\ ~crashed /\ pc[Sweeper] = "range"
    /\ key \in DOMAIN cache \ loc[Sweeper].visited
    /\ IF RacyRead(Sweeper) THEN crashed' \in BOOLEAN ELSE crashed' = crashed
    /\ IF SweepTest(cache[key], now)
       THEN /\ pc' = [pc EXCEPT ![Sweeper] = "lookup"]
            /\ loc' = [loc EXCEPT ![Sweeper] =
                          MuLock([loc[Sweeper] EXCEPT
                              !.op = "Expire", !.key = key, !.ttl = 0,
                              !.visited = @ \cup {key}])]
       ELSE /\ pc' = pc
            /\ loc' = [loc EXCEPT ![Sweeper].visited = @ \cup {key}]
    /\ UNCHANGED <<now, cache, hist, seqVars>>

\* the range loop ends: every key that was in the table when it started
\* and still is has been visited (a key added meanwhile may be skipped)
SweepEnd ==
    /\ ~crashed /\ pc[Sweeper] = "range"
    /\ (loc[Sweeper].start \cap DOMAIN cache) \ loc[Sweeper].visited = {}
    /\ pc' = [pc EXCEPT ![Sweeper] = "sleep"]
    /\ loc' = [loc EXCEPT ![Sweeper] = LocIdle]
    /\ UNCHANGED <<now, cache, crashed, hist, seqVars>>

\* a goroutine inside a call takes its next step
Progress(p) ==
    \/ MapAssignStep(p)
    \/ ExpireRead(p)
    \/ MapDeleteStep(p)

\* the sweep goroutine's own steps
SweepStep ==
    \/ SweepWake
    \/ \E k \in Keys : SweepNext(k)
    \/ SweepEnd

\* the values and durations the concurrent callers pass
ConcValues == {<<I1, I2>>, <<I2, I1>>}

ConcTTLs == {0 - 1, 1}

\* the tables SpecConc starts from: a new one, and one an earlier
\* Set("k1", <<1, 2>>, ttl) at time 0 left, stale (ttl = -1) or live (ttl = 1)
InitTables ==
    {EmptyMap}
    \cup {MapCacheImpl_Set(EmptyMap, "k1", <<I1, I2>>, d, 0).cache : d \in ConcTTLs}

InitConc ==
    /\ backend = "map"
    /\ now = 0
    /\ cache \in InitTables
    /\ store = EmptyMap
    /\ crashed = FALSE
    /\ last = NoStep("New")
    /\ written = DOMAIN cache
    /\ delNow = {}
    /\ expired0 = {}
    /\ pc = [p \in Goroutines |-> IF p = Sweeper THEN "off" ELSE "idle"]
    /\ loc = [p \in Goroutines |-> LocIdle]
    /\ hist = [calls |-> 0, lastSet |-> cache, used |-> {}, setsOnly |-> TRUE]

NextConc ==
    \/ \E p \in Procs, k \in Keys : CallGet(p, k)
    \/ \E p \in Procs, k \in Keys, v \in ConcValues, d \in ConcTTLs :
          CallSet(p, k, v, d)
    \/ \E p \in Procs, k \in Keys, d \in ConcTTLs : CallExpire(p, k, d)
    \/ \E p \in Goroutines : Progress(p)
    \/ PeriodicExpire
    \/ SweepStep

SpecConc == InitConc /\ [][NextConc]_vars

\* the Go scheduler lets every runnable goroutine run: a call in progress
\* goes on, and the sweep goroutine wakes up and scans
SpecLive ==
    /\ SpecConc
    /\ \A p \in Goroutines : WF_vars(Progress(p))
    /\ WF_vars(SweepStep)

-----------------------------------------------------------------------------
(* SpecCodec: the codec of RedisCacheImpl on its own.  A caller serializes *)
(* result lists and deserializes texts: the text a Serialize has just      *)
(* returned, or any text another writer may have left in the store.        *)

\* what the calls of the codec and of the key deriver leave alone
tableVars ==
    <<backend, now, cache, store, written, delNow, expired0, pc, loc, hist>>

\* the longest result list, signature, JSON array and argument list
MaxLen == 2

\* the sequences over S of at most n elements
SeqsUpTo(S, n) == UNION {[1 .. m -> S] : m \in 0 .. n}

\* a result of type string
Sa == [ty |-> "string", v |-> "a"]

\* the result lists handed to Serialize
CodecValues == SeqsUpTo({I1, I2, Sa}, MaxLen)

\* the result types of the functions whose results are cached
CodecTypes == {"int", "string", "iface"}

\* the signatures (fType) handed to Deserialize
CodecSigs == SeqsUpTo(CodecTypes, MaxLen)

\* the JSON text null
NullText == [kind |-> "null", elems |-> <<>>]

\* the texts handed to Deserialize: no JSON at all, null, and the arrays of
\* empty objects, numbers and strings
CodecTexts ==
    {NoText, NullText}
    \cup {[kind |-> "array", elems |-> e] :
             e \in SeqsUpTo({"{}", "1", "\"a\""}, MaxLen)}

InitCodec == Init /\ backend = "redis"

\* a call of Serialize
CodecSerialize(res) ==
    /\ ~crashed
    /\ LET r == RedisCacheImpl_Serialize(res)
       IN  last' = [op |-> "Serialize", value |-> res, text |-> r.text,
                    err |-> r.err]
    /\ UNCHANGED <<crashed, tableVars>>

\* a call of Deserialize; chained: the text is the one the Serialize just
\* before returned, for the result list orig
CodecDeserialize(text, fType) ==
    /\ ~crashed
    /\ LET r == RedisCacheImpl_Deserialize(text, fType)
           chained == last.op = "Serialize" /\ last.err = Nil /\ last.text = text
       IN  /\ last' = [op |-> "Deserialize", text |-> text, sig |-> fType,
                       value |-> r.value, err |-> r.err, panic |-> r.panic,
                       chained |-> chained,
                       orig |-> IF chained THEN last.value ELSE <<>>]
           /\ crashed' = r.panic
    /\ UNCHANGED tableVars

NextCodec ==
    \/ \E v \in CodecValues : CodecSerialize(v)
    \/ \E x \in CodecTexts, f \in CodecSigs : CodecDeserialize(x, f)

SpecCodec == InitCodec /\ [][NextCodec]_vars

-----------------------------------------------------------------------------
(* CacheKeyImpl and SpecKey: a caller deriving keys, one call after the    *)
(* other.                                                                  *)

\* fmt.Sprintf("%v", arg.Interface()): an int in decimal, a string as it is
Sprint(arg) ==
    CASE arg.ty = "int"    -> arg.v
      [] arg.ty = "string" -> arg.v
      [] OTHER             -> "map[]"

\* the loop body with a separator put before each argument
KeyAppend_WithSeparator(key, arg) == key \o "," \o Sprint(arg)

\* key += fmt.Sprintf("%v", arg.Interface())
KeyAppend(key, arg) == key \o Sprint(arg)

RECURSIVE KeyLoop(_, _, _)
\* for _, arg := range args, from the i-th argument on
KeyLoop(key, args, i) ==
    IF i > Len(args)
    THEN key
    ELSE KeyLoop(KeyAppend(key, args[i]), args, i + 1)

\* func (cacheImpl *CacheKeyImpl) Key(fName, args) string
CacheKeyImpl_Key(fName, args) == KeyLoop(fName, args, 1)

\* an argument of type string whose text is that of the ints 1 and 2 in a row
S12 == [ty |-> "string", v |-> "12"]

\* the function names and argument lists keys are derived from
KeyNames == {"Add", "Add1", "Sub"}

KeyArgs == SeqsUpTo({I1, I2, Sa, S12}, MaxLen)

InitKey == Init /\ backend = "map"

\* a call of Key; n tells a call from the one before it
KeyCall(fName, args) ==
    /\ ~crashed
    /\ last' = [op |-> "Key", fName |-> fName, args |-> args,
                key |-> CacheKeyImpl_Key(fName, args),
                n |-> IF last.op = "Key" THEN 1 - last.n ELSE 0]
    /\ UNCHANGED <<crashed, tableVars>>

NextKey == \E f \in KeyNames, a \in KeyArgs : KeyCall(f, a)

SpecKey == InitKey /\ [][NextKey]_vars

-----------------------------------------------------------------------------
(* SpecRemote: RedisCacheImpl over a redis server other clients write to.  *)
(* The store may hold, under a key this adapter never Set, a text that is  *)
(* no JSON document or the JSON text null.                                 *)

\* the texts another client of the server left under a key
ForeignTexts == {NoText, NullText}

\* the key spaces SpecRemote starts from
InitStores ==
    {EmptyMap}
    \cup {MapAssign(EmptyMap, "k1", [text |-> x, persist |-> TRUE, expireAt |-> 0]) :
             x \in ForeignTexts}

InitRemote ==
    /\ backend = "redis"
    /\ now = 0
    /\ cache = EmptyMap
    /\ store \in InitStores
    /\ crashed = FALSE
    /\ last = NoStep("New")
    /\ written = {}
    /\ delNow = {}
    /\ expired0 = {}
    /\ pc = [p \in Goroutines |-> IF p = Sweeper THEN "off" ELSE "idle"]
    /\ loc = [p \in Goroutines |-> LocIdle]
    /\ hist = [calls |-> 0, lastSet |-> EmptyMap, used |-> {}, setsOnly |-> TRUE]

\* the key the adapter and the other clients both use
RemoteKeys == {"k1"}

NextRemote ==
    \/ Tick
    \/ \E k \in RemoteKeys, f \in Sigs, e \in BOOLEAN : RedisGet(k, f, e)
    \/ \E k \in RemoteKeys, v \in ValueLists, d \in TTLs, e \in BOOLEAN :
          RedisSet(k, v, d, e)
    \/ \E k \in RemoteKeys, d \in TTLs, e \in BOOLEAN : RedisExpire(k, d, e)

SpecRemote == InitRemote /\ [][NextRemote]_vars

-----------------------------------------------------------------------------
(* SpecBoth: one MapCacheImpl and one RedisCacheImpl side by side.  Every  *)
(* call is made on both with the same arguments at the same instant; the   *)
(* store answers every call.  A key stands for one function and its        *)
(* arguments, so the values set under it and the signature it is read with *)
(* are those of that function.                                             *)

\* the signature of the function each key caches the results of
FuncSig == [k \in Keys |-> IF k = "k1" THEN <<"int", "int">> ELSE <<>>]

\* the result lists of the function behind a key
FuncValues(k) == {v \in ValueLists : SigOf(v) = FuncSig[k]}

InitBoth ==
    /\ backend = "both"
    /\ now = 0
    /\ cache = EmptyMap
    /\ store = EmptyMap
    /\ crashed = FALSE
    /\ last = NoStep("New")
    /\ written = {}
    /\ delNow = {}
    /\ expired0 = {}
    /\ pc = [p \in Goroutines |-> IF p = Sweeper THEN "off" ELSE "idle"]
    /\ loc = [p \in Goroutines |-> LocIdle]
    /\ hist = [calls |-> 0, lastSet |-> EmptyMap, used |-> {}, setsOnly |-> TRUE]

BothGet(key) ==
    /\ ~crashed
    /\ LET m == MapCacheImpl_Get(cache, key, now)
           r == RedisCacheImpl_Get(store, key, FuncSig[key], now, FALSE)
       IN  /\ cache' = m.cache
           /\ crashed' = r.panic
           /\ last' = [op |-> "Get", key |-> key, ttl |-> 0, t |-> now,
                       map |-> [value |-> m.value, found |-> m.found,
                                err |-> m.err],
                       redis |-> [value |-> r.value, found |-> r.found,
                                  err |-> r.err]]
    /\ UNCHANGED <<backend, now, store, written, delNow, expired0, concVars>>

BothSet(key, value, ttl) ==
    /\ ~crashed
    /\ LET m == MapCacheImpl_Set(cache, key, value, ttl, now)
           r == RedisCacheImpl_Set(store, key, value, ttl, now, FALSE)
       IN  /\ cache' = m.cache
           /\ store' = r.store
           /\ last' = [op |-> "Set", key |-> key, ttl |-> ttl, t |-> now,
                       map |-> [value |-> value, found |-> FALSE, err |-> m.err],
                       redis |-> [value |-> value, found |-> FALSE,
                                  err |-> r.err]]
    /\ written' = written \cup {key}
    /\ UNCHANGED <<backend, now, crashed, delNow, expired0, concVars>>

BothExpire(key, ttl) ==
    /\ ~crashed
    /\ LET m == MapCacheImpl_Expire(cache, key, ttl, now)
           r == RedisCacheImpl_Expire(store, key, ttl, now, FALSE)
       IN  /\ cache' = m.cache
           /\ store' = r.store
           /\ last' = [op |-> "Expire", key |-> key, ttl |-> ttl, t |-> now,
                       map |-> [value |-> <<>>, found |-> FALSE, err |-> m.err],
                       redis |-> [value |-> <<>>, found |-> FALSE,
                                  err |-> r.err]]
    /\ UNCHANGED <<backend, now, crashed, written, delNow, expired0, concVars>>

NextBoth ==
    \/ Tick
    \/ \E k \in Keys : BothGet(k)
    \/ \E k \in Keys, d \in TTLs : \E v \in FuncValues(k) : BothSet(k, v, d)
    \/ \E k \in Keys, d \in TTLs : BothExpire(k, d)

SpecBoth == InitBoth /\ [][NextBoth]_vars

-----------------------------------------------------------------------------
(* Claims checked under Spec                                               *)

\* C1: on every backend, a Get issued right after a successful
\* Set(key, values, ttl > 0), with the signature of the values and a store
\* that answers, returns found = true, a nil error and the values that were
\* set, whatever the key held before; the process does not die.
C1_GetAfterSetReturnsValues ==
    [][(/\ last.op = "Set" /\ last.ttl > 0 /\ last.err = Nil
        /\ last'.op = "Get" /\ last'.key = last.key /\ ~last'.fail
        /\ (backend = "redis" => last'.sig = SigOf(last.value)))
       => (/\ ~crashed'
           /\ last'.found
           /\ last'.err = Nil
           /\ last'.value = last.value)]_vars

\* C2: on the map backend Get returns found = true exactly when the key is
\* in the table with an expiry strictly after the time of the call.
C2_GetFoundIffLive ==
    (backend = "map" /\ last.op = "Get")
    => (last.found <=> (/\ MapHas(cache, last.key)
                        /\ cache[last.key].expiryTime > last.t))

\* C2 witness: a Get at the very instant an entry set with ttl > 0 expires
\* misses although the entry is still in the table.
C2_MissAtExpiryInstant ==
    /\ backend = "map" /\ last.op = "Get" /\ ~last.found
    /\ MapHas(cache, last.key)
    /\ last.key \notin delNow
    /\ cache[last.key].expiryTime = last.t

\* C3: on every backend a ttl <= 0 means "delete now": after a Set or an
\* Expire with ttl <= 0, no Get of the key finds it until a Set with
\* ttl > 0, and no stored entry is without an expiry.
C3_NonPositiveTTLDeletes ==
    /\ (last.op = "Get" /\ last.key \in delNow) => ~last.found
    /\ \A k \in DOMAIN store : ~store[k].persist

\* C4 as claimed: a Get of a key no Set was ever called on returns
\* found = false and a nil error, on every backend.
C4_NeverWrittenMissNoError ==
    (last.op = "Get" /\ last.key \notin written)
    => (~last.found /\ last.err = Nil)

\* C4 as amended: a Get of a key no Set was ever called on returns
\* found = false on every backend; its error is nil on the map backend, and
\* on the redis backend nil unless the store call itself fails, in which
\* case it is that store error.
C4_NeverWrittenMiss ==
    (last.op = "Get" /\ last.key \notin written)
    => (/\ ~last.found
        /\ ~crashed
        /\ last.err = IF last.fail THEN StoreErr ELSE Nil)

\* C4 witness: the redis backend answers a Get of a key never written,
\* after another key was written, with a miss and no error.
C4_MissAfterOtherKeysWritten ==
    /\ backend = "redis" /\ last.op = "Get" /\ ~last.fail
    /\ last.key \notin written /\ written # {}
    /\ DOMAIN store # {}
    /\ ~last.found /\ last.err = Nil

\* C5: on the map backend Expire(key, ttl <= 0) on a present key removes
\* the key and returns nil, and no Get finds the key from then until the
\* next Set on it.
C5_ExpireNowDeletes ==
    /\ [][(/\ backend = "map" /\ last'.op = "Expire" /\ last'.ttl <= 0
            /\ MapHas(cache, last'.key))
           => (~MapHas(cache', last'.key) /\ last'.err = Nil)]_vars
    /\ []((backend = "map" /\ last.op = "Get" /\ last.key \in expired0)
           => ~last.found)

\* C5 witness: a key that was Set, then removed by Expire(key, ttl <= 0),
\* is missed by Get.
C5_MissAfterExpireNow ==
    /\ backend = "map" /\ last.op = "Get" /\ ~last.found
    /\ last.key \in expired0 /\ last.key \in written
    /\ ~MapHas(cache, last.key)

\* C6: on the map backend Expire(key, ttl > 0) on a present key keeps the
\* entry's value, sets its expiry to now + ttl whatever it was, leaves the
\* other keys alone and returns nil.
C6_ExpireRestoresWithNewExpiry ==
    [][(/\ backend = "map" /\ last'.op = "Expire" /\ last'.ttl > 0
        /\ MapHas(cache, last'.key))
       => (/\ cache' = MapAssign(cache, last'.key,
                          [value |-> cache[last'.key].value,
                           expiryTime |-> now + last'.ttl])
           /\ last'.err = Nil)]_vars

\* C6 witness: Expire(key, ttl > 0) has just moved the expiry of a present
\* entry with a non-empty value, another key being in the table.
C6_ExpiryMoved ==
    /\ backend = "map" /\ last.op = "Expire" /\ last.ttl > 0 /\ last.ok
    /\ MapHas(cache, last.key)
    /\ cache[last.key].value # <<>>
    /\ cache[last.key].expiryTime = last.t + last.ttl
    /\ DOMAIN cache = Keys

\* C7: on the map backend Expire on a key that is not in the table leaves
\* the table as it is, whatever the ttl, and returns nil.
C7_ExpireAbsentIsNoOp ==
    [][(/\ backend = "map" /\ last'.op = "Expire"
        /\ ~MapHas(cache, last'.key))
       => (cache' = cache /\ last'.err = Nil)]_vars

\* C7 witness: Expire with ttl > 0 has run on an absent key while another
\* key is in the table, and the key is still absent.
C7_ExpireOnAbsentKey ==
    /\ backend = "map" /\ last.op = "Expire" /\ last.ttl > 0 /\ ~last.ok
    /\ ~MapHas(cache, last.key)
    /\ DOMAIN cache # {}

\* C8: on the map backend Get leaves the table as it is, and a key leaves
\* the table only in an Expire or in a sweep.
C8_GetNeverMutates ==
    [][/\ (backend = "map" /\ last'.op = "Get") => cache' = cache
       /\ \A k \in DOMAIN cache :
             k \notin DOMAIN cache' => last'.op \in {"Expire", "Sweep"}]_vars

\* C8 witness: a Get has missed on an entry whose expiry is in the past,
\* and the entry is still in the table.
C8_StaleEntryKeptByGet ==
    /\ backend = "map" /\ last.op = "Get" /\ ~last.found
    /\ MapHas(cache, last.key)
    /\ cache[last.key].expiryTime < last.t

\* C20: on the map backend expiry is final until the next Set: when a Get
\* of a key that is in the table would miss, a Get of that key misses
\* after every step that is not a Set on the key; Expire(key, ttl > 0) in
\* particular does not make the entry found again.
C20_ExpiryFinalUntilSet ==
    [][\A k \in Keys :
          (/\ backend = "map"
           /\ MapHas(cache, k)
           /\ ~MapCacheImpl_Get(cache, k, now).found
           /\ ~(last'.op = "Set" /\ last'.key = k))
          => ~MapCacheImpl_Get(cache', k, now').found]_vars

-----------------------------------------------------------------------------
(* Claims checked under SpecCodec                                          *)

\* C11: for every result list v, Serialize(v) succeeds and
\* Deserialize(Serialize(v), signature of v) returns, without an error and
\* without a panic, a list of the length of v whose element at each position
\* is the element of v at that position, with that position's type.
C11_CodecRoundTrip ==
    /\ last.op = "Serialize" => last.err = Nil
    /\ (last.op = "Deserialize" /\ last.chained /\ last.sig = SigOf(last.orig))
         => (/\ ~last.panic
             /\ last.err = Nil
             /\ Len(last.value) = Len(last.orig)
             /\ \A i \in 1 .. Len(last.orig) : last.value[i] = last.orig[i])

\* the number of elements json.Unmarshal decodes from a text
DecodedLen(text) == IF text.kind = "array" THEN Len(text.elems) ELSE 0

\* C13: Deserialize(text, sig) returns an error, and neither a value list
\* nor a panic, whenever the text is malformed or the number of decoded
\* elements differs from the number of results of sig (fewer or more).
C13_DeserializeRejectsMismatch ==
    (/\ last.op = "Deserialize"
     /\ (last.text.kind = "malformed" \/ DecodedLen(last.text) # Len(last.sig)))
    => (last.err # Nil /\ ~last.panic)

-----------------------------------------------------------------------------
(* Claims checked under SpecRemote                                         *)

\* C12: the redis backend returns every error to its caller.  Get answers
\* the store's "key not found" with found = false and a nil error, and
\* returns any other store error, and any error of Deserialize, with
\* found = false; Set returns an error of Serialize without writing to the
\* store, and otherwise the error of the store's Set; Expire returns the
\* error of the store's Expire.
C12_RemoteErrorsPropagate ==
    [][LET k == last'.key
           g == ClientGet(store, k, now, last'.fail)
           d == RedisCacheImpl_Deserialize(g.val, last'.sig)
           z == RedisCacheImpl_Serialize(last'.value)
           w == ClientSet(store, k, z.text, last'.ttl, now, last'.fail)
           x == ClientExpire(store, k, last'.ttl, now, last'.fail)
       IN  /\ last'.op = "Get" =>
                /\ (g.err # Nil /\ g.err # RedisNil)
                      => (last'.err = g.err /\ ~last'.found)
                /\ g.err = RedisNil => (last'.err = Nil /\ ~last'.found)
                /\ (g.err = Nil /\ d.err # Nil)
                      => (last'.err = d.err /\ ~last'.found)
           /\ last'.op = "Set" =>
                /\ z.err # Nil => (last'.err = z.err /\ store' = store)
                /\ z.err = Nil => last'.err = w.err
           /\ last'.op = "Expire" => last'.err = x.err]_vars

\* C12 witness: a Get has returned the error of Deserialize, with
\* found = false, for a key whose text in the store is no JSON document.
C12_DecodeErrorReturned ==
    /\ backend = "redis" /\ last.op = "Get" /\ ~last.fail
    /\ StoreLive(store, last.key, last.t)
    /\ store[last.key].text.kind = "malformed"
    /\ last.err = "json error" /\ ~last.found

-----------------------------------------------------------------------------
(* Claims checked under SpecKey                                            *)

RECURSIVE ArgsText(_)
\* the texts of the arguments one after the other, with nothing in between
ArgsText(args) ==
    IF args = <<>> THEN "" ELSE Sprint(Head(args)) \o ArgsText(Tail(args))

\* C14: Key(name, args) is the name followed by the default text of each
\* argument in argument order with no separators; a call with the name and
\* arguments of the call before it returns the same key; and
\* Key("Add", [1, 2]) differs from Key("Add", [2, 1]).
C14_KeyIsNameThenArgs ==
    /\ [](last.op = "Key" =>
            /\ last.key = last.fName \o ArgsText(last.args)
            /\ (last.fName = "Add" /\ last.args = <<I1, I2>>)
                 => (/\ last.key = "Add12"
                     /\ last.key # CacheKeyImpl_Key("Add", <<I2, I1>>)))
    /\ [][(/\ last.op = "Key" /\ last'.op = "Key"
            /\ last'.fName = last.fName /\ last'.args = last.args)
           => last'.key = last.key]_vars

\* C14 witness: Key("Add", [1, 2]) was called twice in a row and returned
\* "Add12".
C14_SameCallTwice ==
    /\ last.op = "Key" /\ last.n = 1
    /\ last.fName = "Add" /\ last.args = <<I1, I2>>
    /\ last.key = "Add12"

-----------------------------------------------------------------------------
(* Claims checked under SpecBoth                                           *)

\* C15: run side by side on the same calls at the same instants, with a
\* store that answers every call, the two backends give every Get the same
\* found flag and the same values, and neither of them dies.
C15_BackendsAgree ==
    last.op = "Get"
    => (/\ ~crashed
        /\ last.map.found = last.redis.found
        /\ last.map.value = last.redis.value)

-----------------------------------------------------------------------------
(* Claims checked under SpecConc and SpecLive                              *)

\* an entry of the table whose expiry is in the past
Stale(k) == MapHas(cache, k) /\ Before(cache[k].expiryTime, now)

\* C9: once PeriodicExpire has been called, an entry whose expiry has
\* passed does not stay in the table for ever (it is removed, or a later
\* call stores the key afresh), and the sweep goroutine keeps scanning.
C9_SweepRemovesStaleEntries ==
    /\ \A k \in Keys : (pc[Sweeper] # "off" /\ Stale(k)) ~> ~Stale(k)
    /\ (pc[Sweeper] # "off") ~> (pc[Sweeper] = "range")

\* C10: when the only calls are Sets on distinct keys, issued by several
\* goroutines, the process does not die and, once they have all returned,
\* every key holds the entry its Set stored.
C10_ConcurrentSetsKeepTable ==
    hist.setsOnly
    => (/\ ~crashed
        /\ (\A p \in Procs : pc[p] = "idle")
             => \A k \in hist.used :
                   MapHas(cache, k) /\ cache[k] = hist.lastSet[k])

\* p is inside a call of Expire, foreground or from the sweep
InExpire(p) == loc[p].op = "Expire" /\ pc[p] \in {"lookup", "assign", "delete"}

\* p is in Expire between its existence check and its delete or re-store
AfterCheck(p) == loc[p].op = "Expire" /\ pc[p] \in {"assign", "delete"}

\* p is inside a call that reads or writes the table: Expire or Set
InTableCall(p) == pc[p] \in {"lookup", "assign", "delete"}

\* C16: while one Expire call is between its existence check and its
\* delete or re-store, no other goroutine is inside an Expire or a Set on
\* the same table.
C16_ExpireExcludesOthers ==
    \A p \in Goroutines :
        AfterCheck(p) => \A q \in Goroutines \ {p} : ~InTableCall(q)

\* the steps an Expire call still has to take before it returns
StepsLeft(p) ==
    IF ~InExpire(p) THEN 0
    ELSE IF pc[p] = "lookup" THEN 2
    ELSE 1

\* C17: the lock of an Expire call is held only inside that call, so it is
\* released whichever way the call returns (key absent, deleted or
\* re-stored); and every Expire call terminates: in a process that is
\* alive a goroutine inside Expire, foreground or the sweep's, can always
\* take its next step whatever the others are doing (no deadlock), and
\* each of its steps brings it nearer to its return.
C17_ExpireReleasesLock ==
    /\ [](\A p \in Goroutines : loc[p].locked <=> InExpire(p))
    /\ [](\A p \in Goroutines :
             (InExpire(p) /\ ~crashed) => ENABLED Progress(p))
    /\ [][\A p \in Goroutines :
             (InExpire(p) /\ <<pc[p], loc[p]>>' # <<pc[p], loc[p]>>)
             => StepsLeft(p)' < StepsLeft(p)]_vars

\* C17 witness: the table started with "k1", the sweep was never started,
\* a foreground Expire("k1", ttl <= 0) has deleted the key and returned,
\* and no goroutine holds a lock.
C17_LockFreeAfterExpire ==
    /\ ~crashed /\ pc[Sweeper] = "off"
    /\ "k1" \in written /\ ~MapHas(cache, "k1")
    /\ \A p \in Procs : pc[p] = "idle" /\ ~loc[p].locked

\* C18: the sweep removes only entries whose expiry is in the past: when
\* the delete of the sweep's Expire(key, 0) takes a key out of the table,
\* the entry it takes out is stale.
C18_SweepRemovesOnlyStale ==
    [][(/\ pc[Sweeper] = "delete" /\ pc'[Sweeper] # "delete"
        /\ MapHas(cache, loc[Sweeper].key)
        /\ ~MapHas(cache', loc[Sweeper].key))
       => SweepTest(cache[loc[Sweeper].key], now)]_vars

\* C19: the re-store of Expire(key, ttl > 0) never changes the value under
\* the key: when the assignment of an Expire call changes the table, the
\* key was in the table and keeps the value it had (no lost update).
C19_ExpireKeepsValue ==
    [][\A p \in Goroutines :
          (/\ loc[p].op = "Expire" /\ pc[p] = "assign" /\ pc'[p] # "assign"
           /\ cache' # cache)
          => (/\ MapHas(cache, loc[p].key)
              /\ cache'[loc[p].key].value = cache[loc[p].key].value)]_vars

====
